---- MODULE Spec2Model ----
(***************************************************************************)
(* Model of qr_code_generator.py: the command line (main), the output path *)
(* resolution, the rendering of the module matrix into a drawing and the   *)
(* output dispatch (SVG rename / PNG rasterization) over a small file      *)
(* system.  Python strings are sequences of one-character strings, paths   *)
(* of the file system are sequences of components relative to the working  *)
(* directory.                                                              *)
(***************************************************************************)
EXTENDS Integers, Sequences, FiniteSets, TLC

VARIABLES
    argv,       \* sys.argv, program name first
    pc,         \* position in main / generate_qr_code
    fs,         \* the file system: path -> entry, for the paths that exist
    fs0,        \* the file system when the program started
    called,     \* generate_qr_code has been entered
    filename,   \* generate_qr_code's filename (rebound at line 47)
    orig,       \* the filename argument as passed
    color,      \* generate_qr_code's color
    shape,      \* generate_qr_code's shape
    matrix,     \* qr.get_matrix()
    svg,        \* the svgwrite.Drawing
    ops,        \* file and rasterizer calls made so far, in order
    stdout,     \* what was printed, in order
    error,      \* the exception that ended the run, "none" otherwise
    exitCode    \* the process exit code, -1 while running

vars == <<argv, pc, fs, fs0, called, filename, orig, color, shape, matrix,
          svg, ops, stdout, error, exitCode>>

\* ------------------------------------------------------------------ bounds

\* Largest side length of the module matrix the encoder returns.
MaxN == 2

\* ----------------------------------------------------------------- strings

UpperCase == <<"A","B","C","D","E","F","G","H","I","J","K","L","M",
               "N","O","P","Q","R","S","T","U","V","W","X","Y","Z">>

LowerCase == <<"a","b","c","d","e","f","g","h","i","j","k","l","m",
               "n","o","p","q","r","s","t","u","v","w","x","y","z">>

\* str.lower() on one character
LowerChar(c) ==
    IF \E i \in 1..26 : UpperCase[i] = c
    THEN LowerCase[CHOOSE i \in 1..26 : UpperCase[i] = c]
    ELSE c

\* str.lower()
Lower(s) == [i \in 1..Len(s) |-> LowerChar(s[i])]

\* str.endswith(suffix)
EndsWith(s, suffix) ==
    /\ Len(s) >= Len(suffix)
    /\ SubSeq(s, Len(s) - Len(suffix) + 1, Len(s)) = suffix

Digits == <<"0","1","2","3","4","5","6","7","8","9">>

Pad2(n) == <<Digits[((n \div 10) % 10) + 1], Digits[(n % 10) + 1]>>

Pad4(n) == Pad2(n \div 100) \o Pad2(n % 100)

\* datetime.strftime("%Y%m%d_%H%M%S")
Strftime(t) ==
    Pad4(t.year) \o Pad2(t.month) \o Pad2(t.day) \o <<"_">>
        \o Pad2(t.hour) \o Pad2(t.minute) \o Pad2(t.second)

DotPng == <<".","p","n","g">>

DotSvg == <<".","s","v","g">>

TempSvg == <<"t","e","m","p",".","s","v","g">>

Square == <<"s","q","u","a","r","e">>

Circle == <<"c","i","r","c","l","e">>

Dot == <<"d","o","t">>

Triangle == <<"t","r","i","a","n","g","l","e">>

Black == <<"#","0","0","0","0","0","0">>

Red == <<"#","F","F","0","0","0","0">>

NoFill == <<"n","o","n","e">>

InfoFlag == <<"-","i">>

\* ------------------------------------------------------------------- paths

RECURSIVE SplitFrom(_, _, _)
\* str.split("/") from position i on, cur being the component read so far
SplitFrom(s, i, cur) ==
    IF i > Len(s) THEN <<cur>>
    ELSE IF s[i] = "/" THEN <<cur>> \o SplitFrom(s, i + 1, <<>>)
    ELSE SplitFrom(s, i + 1, Append(cur, s[i]))

RECURSIVE NormComps(_, _)
\* os.path.normpath on components: drops "" and ".", ".." pops
NormComps(comps, acc) ==
    IF comps = <<>> THEN acc
    ELSE LET c == Head(comps) IN
         IF c = <<>> \/ c = <<".">> THEN NormComps(Tail(comps), acc)
         ELSE IF c = <<".",".">> /\ acc # <<>>
              THEN NormComps(Tail(comps), SubSeq(acc, 1, Len(acc) - 1))
         ELSE NormComps(Tail(comps), Append(acc, c))

\* os.path.abspath(path), as the components below the working directory
AbsPath(path) == NormComps(SplitFrom(path, 1, <<>>), <<>>)

\* os.path.dirname of an absolute path
Dirname(p) == IF p = <<>> THEN <<>> ELSE SubSeq(p, 1, Len(p) - 1)

\* os.path.join(a, b) for a relative b
PathJoin(a, b) == IF EndsWith(a, <<"/">>) THEN a \o b ELSE a \o <<"/">> \o b

\* ------------------------------------------------------------- file system

TempPath == AbsPath(TempSvg)

NoDrawing == [file |-> <<>>, size |-> <<0, 0>>, elements |-> <<>>]

DirEntry == [kind |-> "dir", fmt |-> "-", body |-> NoDrawing]

FileEntry(fmt, body) == [kind |-> "file", fmt |-> fmt, body |-> body]

\* A file that was there before the program ran.
UserFile == FileEntry("user", NoDrawing)

Prefixes(p) == {SubSeq(p, 1, k) : k \in 1..Len(p)}

\* os.path.isdir; the working directory itself is the empty path
IsDir(f, p) == p = <<>> \/ (p \in DOMAIN f /\ f[p].kind = "dir")

IsFile(f, p) == p \in DOMAIN f /\ f[p].kind = "file"

\* open(p, "w") and write
WriteFile(f, p, e) == [q \in DOMAIN f \cup {p} |-> IF q = p THEN e ELSE f[q]]

RemoveFileKeeps(f, p) == f

\* os.remove(p)
RemoveFile(f, p) == [q \in DOMAIN f \ {p} |-> f[q]]

\* os.makedirs(p, exist_ok=True) fails when a component of p is a file
MakedirsFails(f, p) == \E q \in Prefixes(p) : IsFile(f, q)

\* os.makedirs(p, exist_ok=True)
MakedirsDo(f, p) ==
    [q \in DOMAIN f \cup Prefixes(p) |-> IF q \in DOMAIN f THEN f[q] ELSE DirEntry]

\* os.rename(src, dst): replaces dst; a no-op when both name the same file
RenameFile(f, src, dst) ==
    IF src = dst THEN f ELSE WriteFile(RemoveFile(f, src), dst, f[src])

\* ---------------------------------------------------------------- renderer

ValidShapeAny(s) == TRUE

\* line 36: shape in ['square', 'circle', 'dot']
ValidShape(s) == s \in {Square, Circle, Dot}

IsDarkAlways(m, row, col) == TRUE

\* line 75: matrix[row][col], rows and columns counted from 0
IsDark(m, row, col) == m[row + 1][col + 1]

ShapeElemsDotAsCircle(s, x, y, c) ==
    IF s = Square
    THEN <<[tag |-> "rect", insert |-> <<x, y>>, size |-> <<10, 10>>, fill |-> c]>>
    ELSE <<[tag |-> "circle", center |-> <<x + 5, y + 5>>, r |-> 5, fill |-> c]>>

\* lines 79-84: the primitive added for a dark module with origin (x, y)
ShapeElems(s, x, y, c) ==
    IF s = Square
    THEN <<[tag |-> "rect", insert |-> <<x, y>>, size |-> <<10, 10>>, fill |-> c]>>
    ELSE IF s = Circle
    THEN <<[tag |-> "circle", center |-> <<x + 5, y + 5>>, r |-> 5, fill |-> c]>>
    ELSE IF s = Dot
    THEN <<[tag |-> "circle", center |-> <<x + 5, y + 5>>, r |-> 3, fill |-> c]>>
    ELSE <<>>

RECURSIVE RenderCols(_, _, _, _, _)
\* lines 74-84: the inner loop, from column col on
RenderCols(m, row, col, s, c) ==
    IF col >= Len(m) THEN <<>>
    ELSE (IF IsDark(m, row, col) THEN ShapeElems(s, col * 10, row * 10, c) ELSE <<>>)
         \o RenderCols(m, row, col + 1, s, c)

RECURSIVE RenderRows(_, _, _, _)
\* lines 73-84: the outer loop, from row row on
RenderRows(m, row, s, c) ==
    IF row >= Len(m) THEN <<>>
    ELSE RenderCols(m, row, 0, s, c) \o RenderRows(m, row + 1, s, c)

CanvasSizeOffByBorder(n) == <<(n + 1) * 10, (n + 1) * 10>>

\* line 69: size=(matrix_size * 10, matrix_size * 10)
CanvasSize(n) == <<n * 10, n * 10>>

\* line 70: svg.rect(insert=(0, 0), size=('100%', '100%'), fill='none')
Background ==
    [tag |-> "rect", insert |-> <<0, 0>>, size |-> <<"100%", "100%">>, fill |-> NoFill]

\* lines 66-84: the drawing built for matrix m
Drawing(m, s, c) ==
    [file     |-> TempSvg,
     size     |-> CanvasSize(Len(m)),
     elements |-> <<Background>> \o RenderRows(m, 0, s, c)]

MatricesOfSide(n) == [1..n -> [1..n -> BOOLEAN]]

\* The matrices qr.get_matrix() may return.
Matrices == UNION {MatricesOfSide(n) : n \in 1..MaxN}

\* ------------------------------------------------------------ path resolution

ChooseExtAnyCase(name) == IF EndsWith(Lower(name), DotPng) THEN DotPng ELSE DotSvg

\* line 46: '.png' if filename.endswith('.png') else '.svg'
ChooseExt(name) == IF EndsWith(name, DotPng) THEN DotPng ELSE DotSvg

\* line 47: os.path.join(filename, f"qr_{timestamp}{ext}")
Synthesize(name, now) ==
    PathJoin(name, <<"q", "r", "_">> \o Strftime(now) \o ChooseExt(name))

IsPngTargetCaseSensitive(name) == EndsWith(name, DotPng)

\* line 90: filename.lower().endswith('.png')
IsPngTarget(name) == EndsWith(Lower(name), DotPng)

\* ------------------------------------------------------------------- inputs

Prog == <<"q", "r">>

Url == <<"u">>

OutSvg == <<"o", ".", "s", "v", "g">>

OutPng == <<"o", ".", "p", "n", "g">>

OutPngUpper == <<"o", ".", "P", "N", "G">>

DotSlashTemp == <<".", "/">> \o TempSvg

DirD == <<"d">>

DirDPng == <<"d">> \o DotPng

DirDPngUpper == <<"D", ".", "P", "N", "G">>

NewOutPng == <<"n", "/">> \o OutPng

UnderTemp == TempSvg \o <<"/", "q">> \o DotSvg

\* The filename arguments tried.
Filenames ==
    {OutSvg, OutPng, OutPngUpper, TempSvg, DotSlashTemp, DirD, DirDPng,
     DirDPngUpper, NewOutPng, UnderTemp}

\* The command lines tried: every argument count from none to five.
Argvs ==
    {<<Prog>>, <<Prog, InfoFlag>>, <<Prog, OutSvg>>, <<Prog, InfoFlag, Url>>}
    \cup {<<Prog, f, Url>> : f \in Filenames}
    \cup {<<Prog, f, Url, Red>> : f \in Filenames}
    \cup {<<Prog, f, Url, Red, s>> : f \in Filenames, s \in {Square, Circle, Dot, Triangle}}
    \cup {<<Prog, OutSvg, Url, Black, Dot, Url>>}

\* The values datetime.now() may return.
Nows ==
    {[year |-> 2024, month |-> 1, day |-> 5, hour |-> 9, minute |-> 3, second |-> 7],
     [year |-> 2026, month |-> 11, day |-> 30, hour |-> 23, minute |-> 59, second |-> 58]}

\* The directories every initial file system holds.
BaseDirs == {<<DirD>>, <<DirDPng>>, <<DirDPngUpper>>}

\* The initial file systems: temp.svg is absent, a user's file, or a directory.
InitialFs ==
    {[p \in BaseDirs |-> DirEntry]}
    \cup {[p \in BaseDirs \cup {TempPath} |-> IF p = TempPath THEN e ELSE DirEntry] :
            e \in {UserFile, DirEntry}}

Init ==
    /\ argv \in Argvs
    /\ fs \in InitialFs
    /\ fs0 = fs
    /\ pc = "main"
    /\ called = FALSE
    /\ filename = <<>>
    /\ orig = <<>>
    /\ color = <<>>
    /\ shape = <<>>
    /\ matrix = <<>>
    /\ svg = NoDrawing
    /\ ops = <<>>
    /\ stdout = <<>>
    /\ error = "none"
    /\ exitCode = -1

\* -------------------------------------------------------------------- main

\* line 100: len(sys.argv) == 2 and sys.argv[1] == '-i'
IsInfo(a) == Len(a) = 2 /\ a[2] = InfoFlag

WrongArgCountAtFive(n) == n < 3 \/ n > 4

\* line 105: len(sys.argv) < 3 or len(sys.argv) > 5
WrongArgCount(n) == n < 3 \/ n > 5

\* lines 100-102
MainHelp ==
    /\ pc = "main"
    /\ IsInfo(argv)
    /\ stdout' = Append(stdout, "help")
    /\ exitCode' = 0
    /\ pc' = "exit"
    /\ UNCHANGED <<argv, fs, fs0, called, filename, orig, color, shape, matrix,
                   svg, ops, error>>

\* lines 105-108
MainUsage ==
    /\ pc = "main"
    /\ ~IsInfo(argv)
    /\ WrongArgCount(Len(argv))
    /\ stdout' = stdout \o <<"error", "help">>
    /\ exitCode' = 1
    /\ pc' = "exit"
    /\ UNCHANGED <<argv, fs, fs0, called, filename, orig, color, shape, matrix,
                   svg, ops, error>>

\* lines 111-117
MainCall ==
    /\ pc = "main"
    /\ ~IsInfo(argv)
    /\ ~WrongArgCount(Len(argv))
    /\ filename' = argv[2]
    /\ orig' = argv[2]
    /\ color' = IF Len(argv) > 3 THEN argv[4] ELSE Black
    /\ shape' = IF Len(argv) > 4 THEN argv[5] ELSE Square
    /\ called' = TRUE
    /\ pc' = "validate"
    /\ UNCHANGED <<argv, fs, fs0, matrix, svg, ops, stdout, error, exitCode>>

\* ----------------------------------------------------------- generate_qr_code

\* line 37: the ValueError leaves generate_qr_code and main; the interpreter exits 1
ValidateFail ==
    /\ pc = "validate"
    /\ ~ValidShape(shape)
    /\ error' = "ValueError"
    /\ exitCode' = 1
    /\ pc' = "exit"
    /\ UNCHANGED <<argv, fs, fs0, called, filename, orig, color, shape, matrix,
                   svg, ops, stdout>>

\* line 36, the shape is valid
ValidateOk ==
    /\ pc = "validate"
    /\ ValidShape(shape)
    /\ pc' = "resolve"
    /\ UNCHANGED <<argv, fs, fs0, called, filename, orig, color, shape, matrix,
                   svg, ops, stdout, error, exitCode>>

\* lines 40-47, the target is an existing directory
ResolveDir ==
    /\ pc = "resolve"
    /\ IsDir(fs, AbsPath(filename))
    /\ \E now \in Nows : filename' = Synthesize(filename, now)
    /\ pc' = "makedirs"
    /\ UNCHANGED <<argv, fs, fs0, called, orig, color, shape, matrix, svg, ops,
                   stdout, error, exitCode>>

\* line 40, the target is not a directory
ResolveFile ==
    /\ pc = "resolve"
    /\ ~IsDir(fs, AbsPath(filename))
    /\ pc' = "makedirs"
    /\ UNCHANGED <<argv, fs, fs0, called, filename, orig, color, shape, matrix,
                   svg, ops, stdout, error, exitCode>>

\* line 50
MakedirsOk ==
    /\ pc = "makedirs"
    /\ ~MakedirsFails(fs, Dirname(AbsPath(filename)))
    /\ fs' = MakedirsDo(fs, Dirname(AbsPath(filename)))
    /\ pc' = "encode"
    /\ UNCHANGED <<argv, fs0, called, filename, orig, color, shape, matrix, svg,
                   ops, stdout, error, exitCode>>

\* line 50, a component of the parent path is a file
MakedirsFail ==
    /\ pc = "makedirs"
    /\ MakedirsFails(fs, Dirname(AbsPath(filename)))
    /\ error' = "FileExistsError"
    /\ exitCode' = 1
    /\ pc' = "exit"
    /\ UNCHANGED <<argv, fs, fs0, called, filename, orig, color, shape, matrix,
                   svg, ops, stdout>>

\* lines 53-66: the external encoder returns the module matrix
Encode ==
    /\ pc = "encode"
    /\ \E m \in Matrices : matrix' = m
    /\ pc' = "render"
    /\ UNCHANGED <<argv, fs, fs0, called, filename, orig, color, shape, svg, ops,
                   stdout, error, exitCode>>

\* lines 69-84
Render ==
    /\ pc = "render"
    /\ svg' = Drawing(matrix, shape, color)
    /\ pc' = "save"
    /\ UNCHANGED <<argv, fs, fs0, called, filename, orig, color, shape, matrix,
                   ops, stdout, error, exitCode>>

\* line 87: svg.save() writes the drawing to temp.svg in the working directory
SaveOk ==
    /\ pc = "save"
    /\ ~IsDir(fs, TempPath)
    /\ fs' = WriteFile(fs, TempPath, FileEntry("svg", svg))
    /\ ops' = Append(ops, "save")
    /\ pc' = "dispatch"
    /\ UNCHANGED <<argv, fs0, called, filename, orig, color, shape, matrix, svg,
                   stdout, error, exitCode>>

\* line 87, temp.svg is a directory
SaveFail ==
    /\ pc = "save"
    /\ IsDir(fs, TempPath)
    /\ ops' = Append(ops, "save")
    /\ error' = "IsADirectoryError"
    /\ exitCode' = 1
    /\ pc' = "exit"
    /\ UNCHANGED <<argv, fs, fs0, called, filename, orig, color, shape, matrix,
                   svg, stdout>>

\* line 91: the rasterizer reads temp.svg and writes the PNG to filename
Svg2PngOk ==
    /\ pc = "dispatch"
    /\ IsPngTarget(filename)
    /\ ~IsDir(fs, AbsPath(filename))
    /\ fs' = WriteFile(fs, AbsPath(filename), FileEntry("png", fs[TempPath].body))
    /\ ops' = Append(ops, "svg2png")
    /\ pc' = "remove"
    /\ UNCHANGED <<argv, fs0, called, filename, orig, color, shape, matrix, svg,
                   stdout, error, exitCode>>

Svg2PngFailCleansUp ==
    /\ pc = "dispatch"
    /\ IsPngTarget(filename)
    /\ fs' = RemoveFile(fs, TempPath)
    /\ ops' = ops \o <<"svg2png", "remove">>
    /\ error' = "RasterizeError"
    /\ exitCode' = 1
    /\ pc' = "exit"
    /\ UNCHANGED <<argv, fs0, called, filename, orig, color, shape, matrix, svg,
                   stdout>>

\* line 91, the rasterizer raises: line 92 is not reached
Svg2PngFail ==
    /\ pc = "dispatch"
    /\ IsPngTarget(filename)
    /\ ops' = Append(ops, "svg2png")
    /\ error' = "RasterizeError"
    /\ exitCode' = 1
    /\ pc' = "exit"
    /\ UNCHANGED <<argv, fs, fs0, called, filename, orig, color, shape, matrix,
                   svg, stdout>>

\* line 92
Remove ==
    /\ pc = "remove"
    /\ fs' = RemoveFile(fs, TempPath)
    /\ ops' = Append(ops, "remove")
    /\ pc' = "print"
    /\ UNCHANGED <<argv, fs0, called, filename, orig, color, shape, matrix, svg,
                   stdout, error, exitCode>>

\* line 94
Rename ==
    /\ pc = "dispatch"
    /\ ~IsPngTarget(filename)
    /\ ~IsDir(fs, AbsPath(filename))
    /\ fs' = RenameFile(fs, TempPath, AbsPath(filename))
    /\ ops' = Append(ops, "rename")
    /\ pc' = "print"
    /\ UNCHANGED <<argv, fs0, called, filename, orig, color, shape, matrix, svg,
                   stdout, error, exitCode>>

\* line 96, then main returns and the interpreter exits 0
PrintSaved ==
    /\ pc = "print"
    /\ stdout' = Append(stdout, "saved")
    /\ exitCode' = 0
    /\ pc' = "exit"
    /\ UNCHANGED <<argv, fs, fs0, called, filename, orig, color, shape, matrix,
                   svg, ops, error>>

Next ==
    \/ MainHelp
    \/ MainUsage
    \/ MainCall
    \/ ValidateFail
    \/ ValidateOk
    \/ ResolveDir
    \/ ResolveFile
    \/ MakedirsOk
    \/ MakedirsFail
    \/ Encode
    \/ Render
    \/ SaveOk
    \/ SaveFail
    \/ Svg2PngOk
    \/ Svg2PngFail
    \/ Remove
    \/ Rename
    \/ PrintSaved

Spec == Init /\ [][Next]_vars

\* ------------------------------------------------------------- properties

ValidShapes == {Square, Circle, Dot}

\* The drawing has been built.
Rendered == svg # NoDrawing

\* generate_qr_code returned normally and the program ended.
Succeeded == pc = "exit" /\ called /\ error = "none"

\* The resolved output path.
Target == AbsPath(filename)

DarkCells == {rc \in (1..Len(matrix)) \X (1..Len(matrix)) : matrix[rc[1]][rc[2]]}

\* The (row, col) of the cell an emitted primitive has its origin in.
CellOf(el) ==
    IF el.tag = "rect"
    THEN <<el.insert[2] \div 10, el.insert[1] \div 10>>
    ELSE <<(el.center[2] - 5) \div 10, (el.center[1] - 5) \div 10>>

\* C1: the number of primitives after the background rectangle equals the
\* number of true cells of the matrix, and every primitive sits in a true
\* cell, so no primitive is emitted for a false cell.
C1_OnePrimitivePerDarkCell ==
    Rendered =>
        /\ Len(svg.elements) - 1 = Cardinality(DarkCells)
        /\ \A k \in 2..Len(svg.elements) :
              LET rc == CellOf(svg.elements[k])
              IN  <<rc[1] + 1, rc[2] + 1>> \in DarkCells

C1_Witness ==
    /\ Rendered
    /\ Len(matrix) = 2
    /\ Cardinality(DarkCells) = 2
    /\ matrix[1][1] /\ ~matrix[1][2]

\* C2: for every dark module at (row, col) the drawing holds the primitive
\* the shape prescribes: square, a 10 x 10 rectangle at (col*10, row*10);
\* circle, a circle of radius 5 centred at (col*10+5, row*10+5); dot, the same
\* centre with radius 3; each filled with the color and inside its cell.
C2_PrimitiveGeometry ==
    Rendered =>
        \A row \in 0..(Len(matrix) - 1), col \in 0..(Len(matrix) - 1) :
            matrix[row + 1][col + 1] =>
                \E k \in 2..Len(svg.elements) :
                    LET el == svg.elements[k] IN
                    /\ el.fill = color
                    /\ shape = Square =>
                          /\ el.tag = "rect"
                          /\ el.insert = <<col * 10, row * 10>>
                          /\ el.size = <<10, 10>>
                    /\ shape = Circle =>
                          /\ el.tag = "circle"
                          /\ el.center = <<col * 10 + 5, row * 10 + 5>>
                          /\ el.r = 5
                    /\ shape = Dot =>
                          /\ el.tag = "circle"
                          /\ el.center = <<col * 10 + 5, row * 10 + 5>>
                          /\ el.r = 3
                    /\ el.tag = "circle" =>
                          /\ el.center[1] - el.r >= col * 10
                          /\ el.center[1] + el.r <= col * 10 + 10
                          /\ el.center[2] - el.r >= row * 10
                          /\ el.center[2] + el.r <= row * 10 + 10

C2_Witness ==
    /\ Rendered
    /\ shape = Dot
    /\ color = Red
    /\ Len(matrix) = 2
    /\ matrix[2][2] /\ matrix[1][2]

\* C3: the canvas is (10*N) x (10*N) for a matrix of side N, and the first
\* element of the drawing is the unfilled background rectangle at (0, 0) of
\* size 100% x 100%, whatever the shape and the matrix contents.
C3_CanvasAndBackground ==
    Rendered =>
        /\ svg.size = <<10 * Len(matrix), 10 * Len(matrix)>>
        /\ Len(svg.elements) >= 1
        /\ svg.elements[1].tag = "rect"
        /\ svg.elements[1].insert = <<0, 0>>
        /\ svg.elements[1].size = <<"100%", "100%">>
        /\ svg.elements[1].fill = NoFill

C3_Witness ==
    /\ Rendered
    /\ shape = Circle
    /\ Len(matrix) = 2
    /\ Cardinality(DarkCells) = 0

\* C4: with a shape other than square, circle, dot, generate_qr_code ends in
\* a ValueError with the file system as it was before the call: nothing is
\* rendered, no file or directory is created, no file call is made.
C4_InvalidShapeNoIO ==
    (called /\ shape \notin ValidShapes) =>
        /\ fs = fs0
        /\ ops = <<>>
        /\ ~Rendered
        /\ pc \in {"validate", "exit"}
        /\ pc = "exit" => (error = "ValueError" /\ exitCode = 1)

C4_Witness ==
    /\ pc = "exit"
    /\ error = "ValueError"
    /\ shape = Triangle
    /\ orig = NewOutPng

\* C5: the single argument -i prints the help and exits 0; two, three or four
\* arguments call generate_qr_code and exit 0 when it succeeds; every other
\* argument count prints the error and the help, exits 1 and does not call
\* generate_qr_code.
C5_ArgumentDispatch ==
    LET n == Len(argv) - 1 IN
    /\ called => n \in {2, 3, 4}
    /\ pc = "exit" =>
          IF n = 1 /\ argv[2] = InfoFlag
          THEN exitCode = 0 /\ stdout = <<"help">> /\ ~called
          ELSE IF n \in {2, 3, 4}
          THEN called /\ (error = "none" => exitCode = 0 /\ stdout = <<"saved">>)
          ELSE exitCode = 1 /\ stdout = <<"error", "help">> /\ ~called

C5_Witness ==
    /\ pc = "exit"
    /\ Len(argv) = 5
    /\ called
    /\ exitCode = 0

Invoked(op) == \E i \in 1..Len(ops) : ops[i] = op

\* C6 as stated: the rasterizer path is taken exactly when the resolved
\* filename ends in .png, compared as written.
C6_Original ==
    pc = "print" =>
        IF EndsWith(filename, DotPng)
        THEN ops = <<"save", "svg2png", "remove">>
        ELSE /\ ~Invoked("svg2png")
             /\ IsFile(fs, Target) /\ fs[Target].fmt = "svg"

\* C6 (amended): when the resolved filename ends in .png compared without
\* regard to case, the drawing is saved to temp.svg, the rasterizer writes the
\* PNG to the target and temp.svg is removed, in that order; otherwise the
\* target receives the vector drawing and the rasterizer is never invoked.
C6_FormatDispatch ==
    LET png == EndsWith(Lower(filename), DotPng) IN
    /\ Invoked("svg2png") => (png /\ SubSeq(ops, 1, 2) = <<"save", "svg2png">>)
    /\ Invoked("remove") => ops = <<"save", "svg2png", "remove">>
    /\ pc = "print" =>
          IF png
          THEN /\ ops = <<"save", "svg2png", "remove">>
               /\ IsFile(fs, Target) /\ fs[Target].fmt = "png"
          ELSE /\ ~Invoked("svg2png")
               /\ IsFile(fs, Target) /\ fs[Target].fmt = "svg"
               /\ fs[Target].body = svg

C6_Witness ==
    /\ pc = "print"
    /\ filename = OutPngUpper
    /\ ops = <<"save", "svg2png", "remove">>

\* The names strftime gives the two timestamps tried, written out.
StampA == <<"2","0","2","4","0","1","0","5","_","0","9","0","3","0","7">>

StampB == <<"2","0","2","6","1","1","3","0","_","2","3","5","9","5","8">>

\* C7: when the target is an existing directory and the call succeeds, a new
\* file qr_<YYYYMMDD_HHMMSS>.<ext> exists inside it, ext being png when the
\* directory path ended in .png and svg otherwise, and the format written is
\* the one the extension names.
C7_DirectoryTarget ==
    (Succeeded /\ IsDir(fs0, AbsPath(orig))) =>
        LET ext  == IF EndsWith(orig, DotPng) THEN DotPng ELSE DotSvg
            want == IF ext = DotPng THEN "png" ELSE "svg"
        IN  \E stamp \in {StampA, StampB} :
                LET p == Append(AbsPath(orig), <<"q", "r", "_">> \o stamp \o ext)
                IN  /\ p \notin DOMAIN fs0
                    /\ IsFile(fs, p)
                    /\ fs[p].fmt = want
                    /\ fs[p].body = svg
                    /\ p = Target

C7_Witness ==
    /\ Succeeded
    /\ orig = DirDPng
    /\ IsFile(fs, Append(<<DirDPng>>, <<"q", "r", "_">> \o StampA \o DotPng))

\* The target holds the image generate_qr_code produced.
TargetHoldsOutput ==
    /\ IsFile(fs, Target)
    /\ fs[Target].fmt \in {"svg", "png"}
    /\ fs[Target].body = svg

\* C8 as stated: after every successful call temp.svg is gone and the target
\* holds the image, a target named temp.svg included.
C8_Original == Succeeded => (TempPath \notin DOMAIN fs /\ TargetHoldsOutput)

\* C8 (amended): after every successful call the target holds the image, and
\* temp.svg no longer exists in the working directory unless the target is
\* that very file.
C8_TempRemoved ==
    Succeeded =>
        /\ TargetHoldsOutput
        /\ Target # TempPath => TempPath \notin DOMAIN fs

C8_Witness ==
    /\ Succeeded
    /\ filename = OutPng
    /\ TempPath \in DOMAIN fs0
    /\ TempPath \notin DOMAIN fs

\* C9: when the rasterizer fails, generate_qr_code ends in error with
\* temp.svg still holding the serialized drawing, and no remove was made.
C9_RasterizerFailureLeaksTemp ==
    error = "RasterizeError" =>
        /\ pc = "exit"
        /\ exitCode = 1
        /\ IsFile(fs, TempPath)
        /\ fs[TempPath] = FileEntry("svg", svg)
        /\ ops = <<"save", "svg2png">>

C9_Witness ==
    /\ error = "RasterizeError"
    /\ filename = OutPng
    /\ IsFile(fs, TempPath)

\* C10: a successful call changes nothing but the output file at the target
\* and the parent directories it creates: every path that existed before,
\* temp.svg included, exists afterwards with the same content.
C10_FrameOnlyTarget ==
    Succeeded =>
        /\ \A p \in DOMAIN fs0 :
              p # Target => (p \in DOMAIN fs /\ fs[p] = fs0[p])
        /\ \A p \in DOMAIN fs \ DOMAIN fs0 :
              p = Target \/ p \in Prefixes(Dirname(Target))

====
